---- MODULE Spec2Model ----
(***************************************************************************)
(* Model of src/main.py: the grooming guest-book form (DogPhotoTool).      *)
(*                                                                         *)
(* Text is modelled as a sequence of characters, each character a string   *)
(* token.  A Hangul syllable of the source is one token, written in its    *)
(* romanised form ("mi", "yong", "jeon" for the three syllables of the     *)
(* "before grooming" suffix), so that Len agrees with Python's len().      *)
(***************************************************************************)
EXTENDS Integers, Sequences, FiniteSets, TLC

(***************************************************************************)
(* Bounds of the model.                                                    *)
(***************************************************************************)
\* submissions that get past validation, per session
MaxRuns == 2
\* minutes the wall clock may advance during the session
MaxClock == 1

(***************************************************************************)
(* Characters and the string functions of Python that main.py uses.        *)
(***************************************************************************)
DIGITS == {"0", "1", "2", "3", "4", "5", "6", "7", "8", "9"}

\* the characters str.strip() removes, within the alphabet of the model
WHITESPACE == {" ", "\t"}

UPPER == <<"A","B","C","D","E","F","G","H","I","J","K","L","M",
           "N","O","P","Q","R","S","T","U","V","W","X","Y","Z">>
LOWER == <<"a","b","c","d","e","f","g","h","i","j","k","l","m",
           "n","o","p","q","r","s","t","u","v","w","x","y","z">>

SetMax(S) == CHOOSE x \in S : \A y \in S : x >= y

\* a string of n copies of ch
Rep(ch, n) == [i \in 1..n |-> ch]

\* str.strip()
strip(s) ==
    IF \A i \in 1..Len(s) : s[i] \in WHITESPACE
    THEN <<>>
    ELSE LET first == CHOOSE i \in 1..Len(s) :
                          s[i] \notin WHITESPACE /\ \A j \in 1..(i - 1) : s[j] \in WHITESPACE
             last  == CHOOSE i \in 1..Len(s) :
                          s[i] \notin WHITESPACE /\ \A j \in (i + 1)..Len(s) : s[j] \in WHITESPACE
         IN  SubSeq(s, first, last)

\* "".join(ch for ch in s if ch.isdigit())
isdigit(ch) == ch \in DIGITS
digits_of(s) == SelectSeq(s, isdigit)

\* str.lower()
lower_ch(ch) ==
    IF \E i \in 1..26 : UPPER[i] = ch
    THEN LOWER[CHOOSE i \in 1..26 : UPPER[i] = ch]
    ELSE ch
lower(s) == [i \in 1..Len(s) |-> lower_ch(s[i])]

\* int(digits), for a non-empty string of decimal digits
DigitValue(ch) == CHOOSE d \in 0..9 : <<"0","1","2","3","4","5","6","7","8","9">>[d + 1] = ch
RECURSIVE int(_)
int(s) == IF s = <<>> THEN 0 ELSE 10 * int(SubSeq(s, 1, Len(s) - 1)) + DigitValue(s[Len(s)])

\* os.path: the separators, join, basename, splitext(p)[1]
SEPS == {"/", "\\"}
path_join(a, b) == a \o <<"/">> \o b
LastSep(p) ==
    LET at == {i \in 1..Len(p) : p[i] \in SEPS}
    IN  IF at = {} THEN 0 ELSE SetMax(at)
basename(p) == SubSeq(p, LastSep(p) + 1, Len(p))
splitext_ext(p) ==
    LET sepIndex == LastSep(p)
        dots     == {i \in 1..Len(p) : p[i] = "."}
        dotIndex == IF dots = {} THEN 0 ELSE SetMax(dots)
    IN  IF dotIndex > sepIndex
           /\ \E i \in (sepIndex + 1)..(dotIndex - 1) : p[i] # "."
        THEN SubSeq(p, dotIndex, Len(p))
        ELSE <<>>

(***************************************************************************)
(* Module constants of main.py.                                            *)
(***************************************************************************)
\* OUTPUT_ROOT, joined to the program's directory (base_dir of on_run)
OUTPUT_ROOT == <<"go", "gaeg", "sa", "jin">>
\* the fixed option of the breed list that asks for free text
SENTINEL == <<"gi", "ta", "(", "jig", "jeob", "ib", "lyeog", ")">>
\* the grey hint the customer entry shows while nothing was typed
PLACEHOLDER == <<"0","1","0","-","0","0","0","0","-","0","0","0","0">>
\* the longest destination file name on_run accepts
FILENAME_LIMIT == 100
SUFFIX_BEFORE == <<" ", "-", " ", "mi", "yong", "jeon">>
SUFFIX_AFTER == <<" ", "-", " ", "mi", "yong", "hu">>
LABEL_PAID == <<"gyeol", "je", "wan", "lyo">>
LABEL_PENDING == <<"ib", "geum", " ", "jeon">>

\* the extensions set_photo accepts
PHOTO_EXTS == {<<".","j","p","g">>, <<".","j","p","e","g">>, <<".","p","n","g">>}

\* the header ensure_excel_file writes (13 cells)
HEADER ==
    << <<"gi","rok","si","gak">>,
       <<"go","gaeg","beon","ho">>,
       <<"bo","ho","ja"," ","i","reum">>,
       <<"gang","a","ji"," ","i","reum">>,
       <<"pum","jong">>,
       <<"o","neul"," ","mi","yong"," ","seu","ta","il">>,
       <<"go","gaeg"," ","yo","gu","sa","hang">>,
       <<"mi","yong"," ","jung"," ","teug","i","sa","hang">>,
       <<"ae","peu","teo"," ","ke","eo">>,
       <<"gyeol","je","geum","aeg">>,
       <<"gyeol","je","sang","tae">>,
       <<"mi","yong"," ","jeon"," ","sa","jin","pa","il","myeong">>,
       <<"mi","yong"," ","hu"," ","sa","jin","pa","il","myeong">> >>

(***************************************************************************)
(* sanitize_for_path and load_breeds_or_die.                               *)
(***************************************************************************)
\* the forbidden characters with the vertical bar left out
invalid_no_bar == {"\\", "/", ":", "*", "?", "\"", "<", ">"}

invalid == {"\\", "/", ":", "*", "?", "\"", "<", ">", "|"}

sanitize_for_path(name) ==
    strip([i \in 1..Len(name) |-> IF name[i] \in invalid THEN "_" ELSE name[i]])

\* the lines of breeds.txt, stripped, the empty ones dropped, the sentinel
\* appended when the file does not list it
NonEmpty(s) == s # <<>>
load_breeds_or_die(lines) ==
    LET names  == [i \in 1..Len(lines) |-> strip(lines[i])]
        breeds0 == SelectSeq(names, NonEmpty)
    IN  IF \E i \in 1..Len(breeds0) : breeds0[i] = SENTINEL
        THEN breeds0
        ELSE Append(breeds0, SENTINEL)

(***************************************************************************)
(* State.                                                                  *)
(***************************************************************************)
VARIABLES
    breeds,             \* self.breeds, read from breeds.txt at startup
    before_path, after_path,
    dog_name, owner_name,
    customer_raw,       \* text of customer_entry
    customer_fg,        \* foreground of customer_entry: "gray" | "black"
    style_today,
    breed_var, breed_other_var,
    breed_other_state,  \* state of breed_other_entry: "normal" | "disabled"
    payment_display,
    payment_state,      \* "paid" | "pending"
    requirements_text, notes_text, aftercare_text,
    dirs,               \* directories that exist under the program's directory
    files,              \* photo files: destination path -> image written
    excel,              \* customer_data.xlsx: [exists, rows]
    now,                \* minutes the wall clock has advanced
    dialog,             \* the message box on_run ended with ("none": no run yet,
                        \* or the box was closed and the operator went on)
    loc,                \* the locals of the last on_run, <<>> while unassigned
    nsub                \* submissions that got past validation

formVars == <<before_path, after_path, dog_name, owner_name, customer_raw,
              customer_fg, style_today, breed_var, breed_other_var,
              breed_other_state, payment_display, payment_state,
              requirements_text, notes_text, aftercare_text>>
diskVars == <<dirs, files, excel>>
vars == <<breeds, formVars, diskVars, now, dialog, loc, nsub>>

\* the values of the fields an operator sees, in the order of _build_ui
FieldValues ==
    <<before_path, after_path, dog_name, owner_name, customer_raw, style_today,
      breed_var, breed_other_var, payment_display, payment_state,
      requirements_text, notes_text, aftercare_text>>

NoLocals ==
    [checked |-> 0, customer_no |-> <<>>, breed |-> <<>>, folder_name |-> <<>>,
     prefix |-> <<>>, name_before |-> <<>>, name_after |-> <<>>]

NoExcel == [exists |-> FALSE, rows |-> <<>>]

(***************************************************************************)
(* The clock: datetime.now() formatted by strftime.  The session starts at *)
(* 2025-12-07 14:34 (the example of on_run's comment) and stays within the *)
(* hour.                                                                   *)
(***************************************************************************)
DigitChar(d) == <<"0","1","2","3","4","5","6","7","8","9">>[d + 1]
Minute == 34 + now
MinuteStr == <<DigitChar(Minute \div 10), DigitChar(Minute % 10)>>
\* now.strftime("%Y%m%d%H%M")
dt_str == <<"2","0","2","5","1","2","0","7","1","4">> \o MinuteStr
\* now.strftime("%Y-%m-%d %H:%M")
record_time == <<"2","0","2","5","-","1","2","-","0","7"," ","1","4",":">> \o MinuteStr

(***************************************************************************)
(* on_run, step 1: the validation of the fields (main.py 451-505).         *)
(***************************************************************************)
\* raw_customer: the stripped entry, the untouched grey hint read as empty
raw_customer ==
    LET r == strip(customer_raw)
    IN  IF r = PLACEHOLDER /\ customer_fg = "gray" THEN <<>> ELSE r

digits_only == digits_of(raw_customer)

\* the character test written with isalnum() in place of isdigit()
customer_has_bad_char_isalnum ==
    \E i \in 1..Len(raw_customer) :
        ~(\/ isdigit(raw_customer[i])
          \/ \E k \in 1..26 : raw_customer[i] \in {UPPER[k], LOWER[k]}
          \/ raw_customer[i] \in {"-", " "})

\* any(not (ch.isdigit() or ch in "- ") for ch in raw_customer)
customer_has_bad_char ==
    \E i \in 1..Len(raw_customer) :
        ~(isdigit(raw_customer[i]) \/ raw_customer[i] \in {"-", " "})

selected_breed == strip(breed_var)

\* the selected list value logged whatever it is
breed_as_selected == selected_breed

breed ==
    IF selected_breed = SENTINEL THEN strip(breed_other_var) ELSE selected_breed

raw_pay == strip(payment_display)

payment_amount == IF raw_pay # <<>> THEN int(digits_of(raw_pay)) ELSE 0

payment_label == IF payment_state = "paid" THEN LABEL_PAID ELSE LABEL_PENDING

\* validation with the breed checked before the customer number
validation_breed_first ==
    IF before_path = <<>> \/ after_path = <<>>
    THEN [checked |-> 1, reason |-> "missing_photos"]
    ELSE IF strip(dog_name) = <<>> \/ strip(owner_name) = <<>> \/ raw_customer = <<>>
    THEN [checked |-> 2, reason |-> "missing_identity"]
    ELSE IF selected_breed = SENTINEL /\ strip(breed_other_var) = <<>>
    THEN [checked |-> 4, reason |-> "missing_breed_text"]
    ELSE IF digits_only = <<>>
    THEN [checked |-> 3, reason |-> "customer_no_digit"]
    ELSE IF customer_has_bad_char
    THEN [checked |-> 3, reason |-> "customer_bad_char"]
    ELSE IF raw_pay # <<>> /\ digits_of(raw_pay) = <<>>
    THEN [checked |-> 5, reason |-> "invalid_payment"]
    ELSE [checked |-> 5, reason |-> "ok"]

\* the checks in the order on_run makes them: the number of the check on_run
\* returned from (5 when all passed) and the message it showed ("ok": none)
validation ==
    IF before_path = <<>> \/ after_path = <<>>
    THEN [checked |-> 1, reason |-> "missing_photos"]
    ELSE IF strip(dog_name) = <<>> \/ strip(owner_name) = <<>> \/ raw_customer = <<>>
    THEN [checked |-> 2, reason |-> "missing_identity"]
    ELSE IF digits_only = <<>>
    THEN [checked |-> 3, reason |-> "customer_no_digit"]
    ELSE IF customer_has_bad_char
    THEN [checked |-> 3, reason |-> "customer_bad_char"]
    ELSE IF selected_breed = SENTINEL /\ strip(breed_other_var) = <<>>
    THEN [checked |-> 4, reason |-> "missing_breed_text"]
    ELSE IF raw_pay # <<>> /\ digits_of(raw_pay) = <<>>
    THEN [checked |-> 5, reason |-> "invalid_payment"]
    ELSE [checked |-> 5, reason |-> "ok"]

(***************************************************************************)
(* on_run, step 2: folder and file names (main.py 507-539).                *)
(***************************************************************************)
DASH == <<" ", "-", " ">>
\* the customer number taken as typed, hyphens and all
customer_no_as_typed == raw_customer

customer_no == digits_only

folder_name ==
    sanitize_for_path(customer_no \o DASH \o strip(owner_name) \o DASH \o strip(dog_name))

base_dir == OUTPUT_ROOT
prefix ==
    sanitize_for_path(customer_no \o DASH \o strip(owner_name) \o DASH
                      \o strip(dog_name) \o DASH \o dt_str)

ext_before == lower(splitext_ext(before_path))
ext_after == lower(splitext_ext(after_path))

\* the names on_run derives, each computed once
names ==
    LET fo == folder_name
        pr == prefix
    IN  [folder_name |-> fo,
         dest_folder |-> path_join(base_dir, fo),
         prefix      |-> pr,
         name_before |-> pr \o SUFFIX_BEFORE \o ext_before,
         name_after  |-> pr \o SUFFIX_AFTER \o ext_after]

\* the length test with "and" in place of "or"
name_too_long_both(n) ==
    Len(n.name_before) > FILENAME_LIMIT /\ Len(n.name_after) > FILENAME_LIMIT

name_too_long(n) ==
    Len(n.name_before) > FILENAME_LIMIT \/ Len(n.name_after) > FILENAME_LIMIT

dest_before(n) == path_join(n.dest_folder, n.name_before)
dest_after(n) == path_join(n.dest_folder, n.name_after)

(***************************************************************************)
(* The writes: os.makedirs, save_image_copy, ensure_excel_file and         *)
(* append_excel_row, as functions of what is on disk.                      *)
(***************************************************************************)
\* os.makedirs(dest_folder, exist_ok=True)
makedirs(ds, folder) == ds \cup {base_dir, folder}

\* the image save_image_copy writes: the source flattened onto white,
\* three channels, encoded as the extension of dest says
image_format(dest) ==
    IF lower(splitext_ext(dest)) \in {<<".","j","p","g">>, <<".","j","p","e","g">>}
    THEN "JPEG" ELSE "PNG"
save_image_copy(fs, src, dest) ==
    {f \in fs : f.path # dest}
        \cup {[path |-> dest, image |-> [src |-> src, format |-> image_format(dest)]]}

\* a workbook made anew on every call
ensure_excel_file_anew(x) == [exists |-> TRUE, rows |-> <<HEADER>>]

ensure_excel_file(x) == IF x.exists THEN x ELSE [exists |-> TRUE, rows |-> <<HEADER>>]

\* the row on_run appends (main.py 548-562)
row(n) ==
    <<record_time, customer_no, strip(owner_name), strip(dog_name), breed,
      strip(style_today), strip(requirements_text), strip(notes_text),
      strip(aftercare_text), payment_amount, payment_label,
      basename(dest_before(n)), basename(dest_after(n))>>

append_excel_row(x, r) ==
    LET e == ensure_excel_file(x) IN [e EXCEPT !.rows = Append(@, r)]

(***************************************************************************)
(* on_run, steps 2 to 5, as what they leave on disk and the box they end   *)
(* with.  fault names the call that raises (caught by on_run's except      *)
(* clause): os.makedirs, the first or second save_image_copy, the save of  *)
(* a new workbook in ensure_excel_file, or load/save in append_excel_row.  *)
(***************************************************************************)
FAULTS == {"none", "makedirs", "save_before", "save_after", "excel_create", "excel_save"}

Ended(box, ds, fs, x) == [dialog |-> box, dirs |-> ds, files |-> fs, excel |-> x]

run_effects(fault, n) ==
    IF fault = "makedirs"
    THEN Ended("unexpected_error", dirs, files, excel)
    ELSE LET d1 == makedirs(dirs, n.dest_folder) IN
    IF name_too_long(n)
    THEN Ended("filename_too_long", d1, files, excel)
    ELSE IF fault = "save_before"
    THEN Ended("unexpected_error", d1, files, excel)
    ELSE LET f1 == save_image_copy(files, before_path, dest_before(n)) IN
    IF fault = "save_after"
    THEN Ended("unexpected_error", d1, f1, excel)
    ELSE LET f2 == save_image_copy(f1, after_path, dest_after(n)) IN
    IF fault = "excel_create" /\ ~excel.exists
    THEN Ended("unexpected_error", d1, f2, excel)
    ELSE IF fault = "excel_save"
    THEN Ended("unexpected_error", d1, f2, ensure_excel_file(excel))
    ELSE Ended("done", d1, f2, append_excel_row(excel, row(n)))

\* the locals on_run had assigned when it returned
locals_after(v, fault, n) ==
    LET named == v.reason = "ok" /\ fault # "makedirs" IN
    [checked     |-> v.checked,
     customer_no |-> IF v.checked >= 4 THEN customer_no ELSE <<>>,
     breed       |-> IF v.checked >= 5 THEN breed ELSE <<>>,
     folder_name |-> IF v.reason = "ok" THEN n.folder_name ELSE <<>>,
     prefix      |-> IF named THEN n.prefix ELSE <<>>,
     name_before |-> IF named THEN n.name_before ELSE <<>>,
     name_after  |-> IF named THEN n.name_after ELSE <<>>]

\* reset_inputs without the line that sets the payment state back
reset_inputs_keeps_payment_state ==
    /\ before_path' = <<>>
    /\ after_path' = <<>>
    /\ dog_name' = <<>>
    /\ owner_name' = <<>>
    /\ customer_raw' = PLACEHOLDER
    /\ customer_fg' = "gray"
    /\ style_today' = <<>>
    /\ breed_var' = IF breeds # <<>> THEN breeds[1] ELSE <<>>
    /\ breed_other_var' = <<>>
    /\ breed_other_state' = "disabled"
    /\ payment_display' = <<>>
    /\ UNCHANGED payment_state
    /\ requirements_text' = <<>>
    /\ notes_text' = <<>>
    /\ aftercare_text' = <<>>

reset_inputs ==
    /\ before_path' = <<>>
    /\ after_path' = <<>>
    /\ dog_name' = <<>>
    /\ owner_name' = <<>>
    /\ customer_raw' = PLACEHOLDER
    /\ customer_fg' = "gray"
    /\ style_today' = <<>>
    /\ breed_var' = IF breeds # <<>> THEN breeds[1] ELSE <<>>
    /\ breed_other_var' = <<>>
    /\ breed_other_state' = "disabled"
    /\ payment_display' = <<>>
    /\ payment_state' = "paid"
    /\ requirements_text' = <<>>
    /\ notes_text' = <<>>
    /\ aftercare_text' = <<>>

on_run ==
    /\ nsub < MaxRuns
    /\ LET v == validation
           n == names
       IN  \E fault \in FAULTS :
           /\ loc' = locals_after(v, fault, n)
           /\ IF v.reason # "ok"
              THEN /\ dialog' = v.reason
                   /\ UNCHANGED <<formVars, diskVars, nsub>>
              ELSE LET e == run_effects(fault, n) IN
                   /\ dialog' = e.dialog
                   /\ dirs' = e.dirs
                   /\ files' = e.files
                   /\ excel' = e.excel
                   /\ nsub' = nsub + 1
                   /\ IF e.dialog = "done" THEN reset_inputs ELSE UNCHANGED formVars
    /\ UNCHANGED <<breeds, now>>

(***************************************************************************)
(* The other handlers and the operator.                                    *)
(***************************************************************************)
\* the combobox is set to b and <<ComboboxSelected>> calls on_breed_selected
on_breed_selected(b) ==
    /\ nsub < MaxRuns
    /\ breed_var' = b
    /\ IF b = SENTINEL
       THEN /\ breed_other_state' = "normal"
            /\ UNCHANGED breed_other_var
       ELSE /\ breed_other_state' = "disabled"
            /\ breed_other_var' = <<>>
    /\ dialog' = "none"
    /\ loc' = NoLocals
    /\ UNCHANGED <<breeds, before_path, after_path, dog_name, owner_name,
                   customer_raw, customer_fg, style_today, payment_display,
                   payment_state, requirements_text, notes_text, aftercare_text,
                   diskVars, now, nsub>>

\* the free-text breed entry takes input only while it is enabled
type_breed_other(t) ==
    /\ nsub < MaxRuns
    /\ breed_other_state = "normal"
    /\ breed_other_var' = t
    /\ dialog' = "none"
    /\ loc' = NoLocals
    /\ UNCHANGED <<breeds, before_path, after_path, dog_name, owner_name,
                   customer_raw, customer_fg, style_today, breed_var,
                   breed_other_state, payment_display, payment_state,
                   requirements_text, notes_text, aftercare_text,
                   diskVars, now, nsub>>

\* set_photo: the dropped file is taken when it has a photo extension
\* (<<>>: nothing was dropped on the label)
set_photo(path, old) ==
    IF path # <<>> /\ lower(splitext_ext(path)) \in PHOTO_EXTS THEN path ELSE old

\* the operator drops photos and fills in the entries and text boxes
operator_input(f) ==
    /\ nsub < MaxRuns
    /\ before_path' = set_photo(f.before_drop, before_path)
    /\ after_path' = set_photo(f.after_drop, after_path)
    /\ dog_name' = f.dog_name
    /\ owner_name' = f.owner_name
    /\ customer_raw' = f.customer_raw
    /\ customer_fg' = f.customer_fg
    /\ style_today' = f.style_today
    /\ payment_display' = f.payment_display
    /\ payment_state' = f.payment_state
    /\ requirements_text' = f.requirements_text
    /\ notes_text' = f.notes_text
    /\ aftercare_text' = f.aftercare_text
    /\ dialog' = "none"
    /\ loc' = NoLocals
    /\ UNCHANGED <<breeds, breed_var, breed_other_var, breed_other_state,
                   diskVars, now, nsub>>

\* a minute passes
tick ==
    /\ nsub < MaxRuns
    /\ now < MaxClock
    /\ now' = now + 1
    /\ dialog' = "none"
    /\ loc' = NoLocals
    /\ UNCHANGED <<breeds, formVars, diskVars, nsub>>

(***************************************************************************)
(* Inputs.                                                                 *)
(***************************************************************************)
\* breeds.txt of the session: one breed, with trailing blanks and an empty line
BREED_FILE == << <<"P","u","g"," ">>, <<>> >>

JPG == <<"p","/","a",".","j","p","g">>
JPEG_U == <<"p",".","d","/","b",".","J","P","E","G">>
GIF == <<"p","/","c",".","g","i","f">>

KIM == <<"K","i","m">>
MANGO == <<"M","a","n","g","o">>
PHONE == <<"0","1","0","-","1","2","3","4","-","5","6","7","8">>
MIX == <<" ","M","i","x"," ">>
\* with KIM, PHONE and a .jpg photo the file names are FILENAME_LIMIT long,
\* with a .jpeg photo one longer
LONG_DOG ==
    Rep("a", FILENAME_LIMIT - (Len(digits_of(PHONE)) + Len(KIM) + 3 * Len(DASH)
                               + Len(dt_str) + Len(SUFFIX_BEFORE) + Len(splitext_ext(JPG))))
\* a name with the nine characters sanitize_for_path replaces
NINE_DOG == <<" ","a","\\","/",":","*","?","\"","<",">","|","b"," ">>

BaseInput ==
    [before_drop |-> JPG, after_drop |-> JPEG_U,
     dog_name |-> MANGO, owner_name |-> KIM,
     customer_raw |-> PHONE, customer_fg |-> "black",
     style_today |-> <<"c","u","t">>,
     payment_display |-> <<"1","5",",","0","0","0">>, payment_state |-> "paid",
     requirements_text |-> <<"r">>, notes_text |-> <<"n">>,
     aftercare_text |-> <<"c">>]

\* what the operator of the session enters
FormInputs ==
    { BaseInput,
      [BaseInput EXCEPT !.dog_name = LONG_DOG],
      [BaseInput EXCEPT !.dog_name = LONG_DOG, !.after_drop = JPG],
      [BaseInput EXCEPT !.dog_name = NINE_DOG, !.owner_name = <<"K","|","m">>,
                        !.customer_raw = <<"\t","1","2"," ">>,
                        !.style_today = <<>>, !.payment_display = <<>>,
                        !.payment_state = "pending", !.requirements_text = <<>>,
                        !.notes_text = <<>>, !.aftercare_text = <<>>],
      [BaseInput EXCEPT !.customer_raw = <<"a","1","-","2">>],
      [BaseInput EXCEPT !.after_drop = GIF],
      [BaseInput EXCEPT !.customer_raw = PLACEHOLDER, !.customer_fg = "gray"],
      [BaseInput EXCEPT !.payment_display = <<"a","b","c">>] }

(***************************************************************************)
(* The session: the window as __init__ builds it, an empty output root and *)
(* no workbook; then the operator and the handlers.                        *)
(***************************************************************************)
InitForm ==
    /\ before_path = <<>>
    /\ after_path = <<>>
    /\ dog_name = <<>>
    /\ owner_name = <<>>
    /\ customer_raw = PLACEHOLDER
    /\ customer_fg = "gray"
    /\ style_today = <<>>
    /\ breed_var = IF breeds # <<>> THEN breeds[1] ELSE <<>>
    /\ breed_other_var = <<>>
    /\ breed_other_state = IF breed_var = SENTINEL THEN "normal" ELSE "disabled"
    /\ payment_display = <<>>
    /\ payment_state = "paid"
    /\ requirements_text = <<>>
    /\ notes_text = <<>>
    /\ aftercare_text = <<>>

InitRest ==
    /\ dirs = {}
    /\ files = {}
    /\ excel = NoExcel
    /\ now = 0
    /\ dialog = "none"
    /\ loc = NoLocals
    /\ nsub = 0

Init ==
    /\ breeds = load_breeds_or_die(BREED_FILE)
    /\ InitForm
    /\ InitRest

Next ==
    \/ \E f \in FormInputs : operator_input(f)
    \/ tick
    \/ on_run

Spec == Init /\ [][Next]_vars

(***************************************************************************)
(* One press of the run button on every form of a grid of field values:    *)
(* on_run as a function of the form.  Each form is one the operator can    *)
(* bring the fresh window to: the grey hint is the placeholder, the free   *)
(* breed text is empty and its entry disabled unless the sentinel is       *)
(* selected, a photo path has passed set_photo.                            *)
(***************************************************************************)
PhotoPairs == {<<JPG, <<>> >>, << <<>>, JPEG_U>>, <<JPG, JPEG_U>>}
DogInputs == {<<" ">>, MANGO, NINE_DOG}
OwnerInputs == {<<>>, <<" ","K","|","m">>}
CustomerInputs ==
    { <<PLACEHOLDER, "gray">>, <<PLACEHOLDER, "black">>, <<PHONE, "black">>,
      << <<" ">>, "black">>, << <<"a","1","-","2">>, "black">>,
      << <<"-"," ","-">>, "black">>, << <<"\t","1","2"," ">>, "black">> }
BreedInputs ==
    { <<b, <<>>, "disabled">> : b \in {breeds[i] : i \in 1..Len(breeds)} \ {SENTINEL} }
        \cup { <<SENTINEL, t, "normal">> : t \in {<<>>, <<" ">>, MIX} }
PaymentInputs == {<<>>, <<"a","b","c">>, <<" ","1","5",",","0","0","0">>}
\* style, payment state and the three text boxes
OtherInputs ==
    { << <<>>, "paid", <<>>, <<>>, <<>> >>,
      << <<"c","u","t"," ">>, "pending", <<"r">>, <<"n">>, <<"c">> >>,
      << <<>>, "pending", <<" ","r">>, <<>>, <<"c">> >> }

InitV ==
    /\ breeds = load_breeds_or_die(BREED_FILE)
    /\ \E p \in PhotoPairs : before_path = p[1] /\ after_path = p[2]
    /\ dog_name \in DogInputs
    /\ owner_name \in OwnerInputs
    /\ \E c \in CustomerInputs : customer_raw = c[1] /\ customer_fg = c[2]
    /\ \E b \in BreedInputs :
          breed_var = b[1] /\ breed_other_var = b[2] /\ breed_other_state = b[3]
    /\ payment_display \in PaymentInputs
    /\ \E o \in OtherInputs :
          /\ style_today = o[1]
          /\ payment_state = o[2]
          /\ requirements_text = o[3]
          /\ notes_text = o[4]
          /\ aftercare_text = o[5]
    /\ InitRest

NextV == on_run

SpecV == InitV /\ [][NextV]_vars

(***************************************************************************)
(* The breed controls: the window built over each of a few breeds.txt      *)
(* files (the sentinel absent, the sentinel listed first, nothing listed), *)
(* then selections in the combobox, typing in the free-text entry, the     *)
(* operator filling in the rest of the form, and the run button.           *)
(***************************************************************************)
PUG_LINE == <<"P","u","g"," ">>
BREED_FILES == { BREED_FILE, <<SENTINEL, PUG_LINE>>, <<>> }
BreedTexts == { <<" ">>, MIX }

InitB ==
    /\ \E lines \in BREED_FILES : breeds = load_breeds_or_die(lines)
    /\ InitForm
    /\ InitRest

NextB ==
    \/ \E i \in 1..Len(breeds) : on_breed_selected(breeds[i])
    \/ \E t \in BreedTexts : type_breed_other(t)
    \/ operator_input(BaseInput)
    \/ on_run

SpecB == InitB /\ [][NextB]_vars

(***************************************************************************)
(* A returning customer: the session in which the operator submits the     *)
(* same dog of the same owner again, with the same photos or with another  *)
(* before photo, within the minute or after it.                            *)
(***************************************************************************)
JPG_RETAKE == <<"q","/","a",".","j","p","g">>
ReturnInputs == { BaseInput, [BaseInput EXCEPT !.before_drop = JPG_RETAKE] }

NextR ==
    \/ \E f \in ReturnInputs : operator_input(f)
    \/ tick
    \/ on_run

SpecR == Init /\ [][NextR]_vars

(***************************************************************************)
(* Properties.                                                             *)
(***************************************************************************)
\* a step of on_run: it is the one handler that ends with a message box
RunStep == dialog' # "none"

REJECTIONS ==
    {"missing_photos", "missing_identity", "customer_no_digit", "customer_bad_char",
     "missing_breed_text", "invalid_payment"}

\* the rows of the workbook below the header
DataRows(x) == IF x.exists /\ x.rows # <<>> THEN Tail(x.rows) ELSE <<>>

\* C1: if any step of a submission fails (the write of the first or second
\* photo, the append to the log), nothing of it is persisted: no photo file
\* written by it is under the output root and no row of it is in the log.
C1_FailureLeavesNothing ==
    [][dialog' = "unexpected_error"
          => files' \subseteq files /\ DataRows(excel') = DataRows(excel)]_vars

\* The five checks of the validator, each on its own, as the specification
\* words them.
Fails1 == before_path = <<>> \/ after_path = <<>>
Fails2 ==
    \/ strip(dog_name) = <<>>
    \/ strip(owner_name) = <<>>
    \/ strip(customer_raw) = <<>>
    \/ (strip(customer_raw) = PLACEHOLDER /\ customer_fg = "gray")
HasDigit(s) == \E i \in 1..Len(s) : s[i] \in DIGITS
HasDisallowed(s) == \E i \in 1..Len(s) : s[i] \notin DIGITS \cup {"-", " "}
Fails3 == ~HasDigit(strip(customer_raw)) \/ HasDisallowed(strip(customer_raw))
Fails4 == breed_var = SENTINEL /\ strip(breed_other_var) = <<>>
Fails5 == strip(payment_display) # <<>> /\ ~HasDigit(strip(payment_display))
FirstFailing ==
    IF Fails1 THEN 1 ELSE IF Fails2 THEN 2 ELSE IF Fails3 THEN 3
    ELSE IF Fails4 THEN 4 ELSE IF Fails5 THEN 5 ELSE 0
ReasonsOf(k) ==
    CASE k = 1 -> {"missing_photos"}
      [] k = 2 -> {"missing_identity"}
      [] k = 3 -> {"customer_no_digit", "customer_bad_char"}
      [] k = 4 -> {"missing_breed_text"}
      [] k = 5 -> {"invalid_payment"}

\* C2: on_run makes its checks in the order photos, identity fields, customer
\* identifier, breed, payment and stops at the first that fails: the reason it
\* shows is that of the lowest-numbered failing check, no later check is
\* evaluated, and names are derived only when all five pass.
C2_ChecksInOrder ==
    [][RunStep =>
          IF FirstFailing = 0
          THEN /\ loc'.checked = 5
               /\ dialog' \notin REJECTIONS
               /\ loc'.folder_name # <<>>
          ELSE /\ loc'.checked = FirstFailing
               /\ dialog' \in ReasonsOf(FirstFailing)
               /\ loc'.folder_name = <<>>]_vars

\* a run rejected for the customer identifier although the breed text and the
\* payment amount are wrong as well
C2_Witness ==
    /\ dialog = "customer_no_digit"
    /\ loc.checked = 3
    /\ Fails4
    /\ Fails5

\* C3 as claimed: a customer identifier holding any character other than a
\* digit, a hyphen or a space is rejected before any write, so the run leaves
\* the folders, the photo files and the log as they were.
C3_AnyDisallowedCharacter ==
    [][(RunStep /\ HasDisallowed(customer_raw)) => UNCHANGED diskVars]_vars

\* C3 as amended: a customer identifier that, once surrounding whitespace is
\* trimmed, holds a character other than a digit, a hyphen or a space is
\* rejected by validation and the run leaves the folders, the photo files and
\* the log as they were.
C3_DisallowedAfterTrim ==
    [][(RunStep /\ HasDisallowed(strip(customer_raw)))
          => (dialog' \in REJECTIONS /\ UNCHANGED diskVars)]_vars

\* an identifier with a letter is turned down while an earlier submission's
\* folder, photos and row are on disk
C3_Witness ==
    /\ dialog = "customer_bad_char"
    /\ HasDisallowed(strip(customer_raw))
    /\ files # {}
    /\ DataRows(excel) # <<>>

\* the digits of s, in order
RECURSIVE DigitSubstring(_)
DigitSubstring(s) ==
    IF s = <<>> THEN <<>>
    ELSE IF Head(s) \in DIGITS THEN <<Head(s)>> \o DigitSubstring(Tail(s))
    ELSE DigitSubstring(Tail(s))

HasLetter(s) == \E i \in 1..Len(s) : \E k \in 1..26 : s[i] \in {UPPER[k], LOWER[k]}

\* C4 as claimed: for a customer identifier of letters mixed with digits and
\* hyphens (the other fields passing their checks) on_run derives the customer
\* number, and it is the identifier's digits in order.
C4_LettersMixedWithDigits ==
    [][(/\ RunStep
        /\ HasLetter(customer_raw) /\ HasDigit(customer_raw)
        /\ ~Fails1 /\ ~Fails2 /\ ~Fails4 /\ ~Fails5)
          => loc'.customer_no = DigitSubstring(customer_raw)]_vars

\* C4 as amended: for a customer identifier of digits, hyphens and spaces with
\* at least one digit (the checks before it passing) the customer number
\* on_run derives is the identifier's digits in order, and the row of a
\* completed submission carries it; for an identifier with a letter on_run
\* derives no customer number.
C4_DigitsOfIdentifier ==
    [][RunStep =>
          /\ (~Fails1 /\ ~Fails2 /\ ~Fails3)
                => /\ loc'.customer_no = DigitSubstring(customer_raw)
                   /\ dialog' = "done"
                         => excel'.rows[Len(excel'.rows)][2] = DigitSubstring(customer_raw)
          /\ HasLetter(customer_raw) => loc'.customer_no = <<>>]_vars

\* a completed submission of 010-1234-5678
C4_Witness ==
    /\ dialog = "done"
    /\ loc.customer_no = <<"0","1","0","1","2","3","4","5","6","7","8">>
    /\ excel.rows[Len(excel.rows)][2] = loc.customer_no

TooLong(l) == Len(l.name_before) > FILENAME_LIMIT \/ Len(l.name_after) > FILENAME_LIMIT

\* C5: when either derived file name (sanitized prefix, before/after suffix,
\* lower-cased extension) is longer than 100 characters on_run rejects the
\* submission and writes no photo file and no log row; so every photo file
\* under the output root has a base name of at most 100 characters.
C5_LongNameRejected ==
    [][/\ (RunStep /\ TooLong(loc'))
            => /\ dialog' = "filename_too_long"
               /\ files' = files
               /\ excel' = excel
       /\ \A f \in files' : Len(basename(f.path)) <= FILENAME_LIMIT]_vars

\* a submission whose before name has 100 characters and whose after name has
\* 101 is turned down, with an earlier submission's photos on disk
C5_Witness ==
    /\ dialog = "filename_too_long"
    /\ Len(loc.name_before) = FILENAME_LIMIT
    /\ Len(loc.name_after) = FILENAME_LIMIT + 1
    /\ files # {}
    /\ \E f \in files : Len(basename(f.path)) = FILENAME_LIMIT

\* C6: a submission rejected for a file name of more than 100 characters has
\* no side effect: the folders under the output root, the photo files and the
\* log are as they were before on_run.
C6_LongNameNoSideEffect ==
    [][dialog' = "filename_too_long" => UNCHANGED diskVars]_vars

\* C7: the log is append-only under a fixed header: it does not exist or its
\* first row is the 13-column header; a completed submission adds exactly one
\* 13-column row at the end; the rows that were there stay as they were; a
\* submission that is rejected (or fails) adds no row.
C7_AppendOnlyLog ==
    [][/\ excel'.exists => (excel'.rows # <<>> /\ excel'.rows[1] = HEADER /\ Len(HEADER) = 13)
       /\ Len(DataRows(excel')) >= Len(DataRows(excel))
       /\ SubSeq(DataRows(excel'), 1, Len(DataRows(excel))) = DataRows(excel)
       /\ IF dialog' = "done"
          THEN /\ Len(DataRows(excel')) = Len(DataRows(excel)) + 1
               /\ Len(excel'.rows[Len(excel'.rows)]) = 13
          ELSE DataRows(excel') = DataRows(excel)]_vars

\* the second completed submission of a session: header and two rows
C7_Witness ==
    /\ dialog = "done"
    /\ Len(excel.rows) = 3
    /\ excel.rows[1] = HEADER
    /\ excel.rows[2] # excel.rows[3]

LastRow(x) == x.rows[Len(x.rows)]

\* C8 as claimed: with the sentinel selected and the free text empty after
\* trimming the submission is rejected; with the sentinel selected and a
\* non-empty free text it passes (the other checks passing) and the logged
\* breed is the free-text value; with another list value selected the logged
\* breed is that value verbatim.
C8_BreedAsEntered ==
    [][RunStep =>
          /\ (breed_var = SENTINEL /\ strip(breed_other_var) = <<>>)
                => dialog' \in REJECTIONS
          /\ (breed_var = SENTINEL /\ strip(breed_other_var) # <<>>)
                => /\ (~Fails1 /\ ~Fails2 /\ ~Fails3 /\ ~Fails5) => dialog' \notin REJECTIONS
                   /\ dialog' = "done" => LastRow(excel')[5] = breed_other_var
          /\ (breed_var # SENTINEL /\ dialog' = "done")
                => LastRow(excel')[5] = breed_var]_vars

\* C8 as amended: as claimed, but the breed logged for the sentinel is the
\* free-text value with its surrounding whitespace trimmed.
C8_BreedTrimmed ==
    [][RunStep =>
          /\ (breed_var = SENTINEL /\ strip(breed_other_var) = <<>>)
                => dialog' \in REJECTIONS
          /\ (breed_var = SENTINEL /\ strip(breed_other_var) # <<>>)
                => /\ (~Fails1 /\ ~Fails2 /\ ~Fails3 /\ ~Fails5) => dialog' \notin REJECTIONS
                   /\ dialog' = "done" => LastRow(excel')[5] = strip(breed_other_var)
          /\ (breed_var # SENTINEL /\ dialog' = "done")
                => LastRow(excel')[5] = breed_var]_vars

\* a completed submission of the sentinel with the free text " Mix "
C8_Witness ==
    /\ dialog = "done"
    /\ loc.breed = <<"M","i","x">>
    /\ LastRow(excel)[5] = <<"M","i","x">>

NINE == {"\\", "/", ":", "*", "?", "\"", "<", ">", "|"}
Clean(s) ==
    /\ \A i \in 1..Len(s) : s[i] \notin NINE
    /\ s # <<>> => (s[1] \notin WHITESPACE /\ s[Len(s)] \notin WHITESPACE)

\* C9: the folder name and the file-name prefix that on_run makes through
\* sanitize_for_path hold none of the characters \ / : * ? " < > | and no
\* leading or trailing whitespace, and so do the names of the folders and
\* photo files on disk.
C9_SanitizedNames ==
    /\ Clean(loc.folder_name)
    /\ Clean(loc.prefix)
    /\ \A d \in dirs : Clean(basename(d))
    /\ \A f \in files : Clean(basename(f.path))

\* a submission whose dog name holds the nine characters, each replaced
C9_Witness ==
    /\ dialog = "done"
    /\ Cardinality({i \in 1..Len(loc.folder_name) : loc.folder_name[i] = "_"}) >= 9
    /\ Cardinality({i \in 1..Len(loc.prefix) : loc.prefix[i] = "_"}) >= 9

\* the field values of the window __init__ builds
InitialFieldValues ==
    << <<>>, <<>>, <<>>, <<>>, PLACEHOLDER, <<>>, breeds[1], <<>>, <<>>, "paid",
       <<>>, <<>>, <<>> >>

\* C10: on_run changes the form fields only when the submission completes:
\* after a rejection (or a failure) every field holds the value it had, after
\* a completed submission every field holds its initial value.
C10_FieldsKeptOrReset ==
    [][RunStep =>
          IF dialog' = "done"
          THEN FieldValues' = InitialFieldValues
          ELSE FieldValues' = FieldValues]_vars

\* a completed submission that had payment pending and notes filled in
C10_Witness ==
    /\ dialog = "done"
    /\ FieldValues = InitialFieldValues
    /\ LastRow(excel)[11] = LABEL_PENDING
    /\ LastRow(excel)[7] # <<>>

\* C11: after any sequence of breed selections and completed submissions, for
\* any loaded breed list, the free-text breed entry is enabled if and only if
\* the selected breed is the sentinel.
C11_EntryEnabledIffSentinel ==
    (breed_other_state = "normal") <=> (breed_var = SENTINEL)

\* the two photo paths a log row denotes: the customer folder on_run derives
\* from the row's customer number, owner and dog, and the row's file names
RowFolder(r) ==
    path_join(OUTPUT_ROOT, sanitize_for_path(r[2] \o DASH \o r[3] \o DASH \o r[4]))
RowPaths(r) == { path_join(RowFolder(r), r[12]), path_join(RowFolder(r), r[13]) }
LoggedPaths(x) == UNION { RowPaths(DataRows(x)[i]) : i \in 1..Len(DataRows(x)) }

\* C12: no completed submission overwrites a photo file written by an earlier
\* completed submission: its two destination paths are paths no log row
\* names yet, and every file a log row names is after the submission the
\* image it was before.
C12_NoOverwrite ==
    [][(RunStep /\ dialog' = "done") =>
          /\ LoggedPaths(excel) \cap RowPaths(LastRow(excel')) = {}
          /\ \A f \in files : f.path \in LoggedPaths(excel) => f \in files']_vars

====
